---- MODULE Spec2Model ----
(***************************************************************************)
(* A model of yt-downloader (src/main.py): argument validation, playlist   *)
(* directory handling, the batch loop of main(), the advanced and the      *)
(* progressive video path, the audio path with its tagging step, and the   *)
(* stream selection policies.                                              *)
(*                                                                         *)
(* Strings that end up in file names are sequences of code points, so that *)
(* sanitising, prefixing and extension handling are computed, not assumed. *)
(* Every blocking call (network fetch, transcoder, prompt) has the         *)
(* outcomes "ok", "error" (an exception other than KeyboardInterrupt) and  *)
(* "interrupt" (KeyboardInterrupt raised inside the call).                 *)
(***************************************************************************)
EXTENDS Integers, Sequences, FiniteSets, TLC

(* ------------------------------ bounds -------------------------------- *)

\* most items in one batch (URLs given with -u, or videos of a playlist)
MaxItems == 2

\* longest stream list drawn when the selection functions are checked alone
MaxStreams == 3

\* longest string drawn when remove_forbidden is checked alone
MaxLen == 3

(* ------------------------- program constants -------------------------- *)

\* parser default of --compress_level
DefaultCompressLevel == 5

\* parser default of --max_resolution
DefaultMaxResolution == 1080

\* smallest and largest accepted --compress_level
MinCompressLevel == 0

MaxCompressLevel == 9

\* largest code point remove_forbidden keeps
MaxAscii == 127

\* ord('_'), the replacement character
Underscore == 95

\* HTTP status that lets the cover image be applied
HttpOk == 200

\* minimum width of the positional prefix, f"{i:03d}"
PrefixWidth == 3

\* os.getpid() of the run
Pid == 7

(* ----------------------- code points and strings ---------------------- *)

\* None, as a value of the same type as the strings of the model
None == <<-1>>

Dash == <<45>>

Dot == <<46>>

Space == <<32>>

ExtMp3 == <<109, 112, 51>>

ExtMp4 == <<109, 112, 52>>

ExtWebm == <<119, 101, 98, 109>>

\* "playlist-"
PlaylistDirPrefix == <<112, 108, 97, 121, 108, 105, 115, 116, 45>>

\* / \ ? % * : | " < >
Win32Forbidden == {47, 92, 63, 37, 42, 58, 124, 34, 60, 62}

RECURSIVE Digits(_)
\* str(n) for n >= 0, as code points
Digits(n) == IF n < 10 THEN <<48 + n>> ELSE Digits(n \div 10) \o <<48 + (n % 10)>>

RECURSIVE ZeroPad(_, _)
ZeroPad(s, width) == IF Len(s) >= width THEN s ELSE ZeroPad(<<48>> \o s, width)

\* f"{i:03d}"
Pad3(n) == ZeroPad(Digits(n), PrefixWidth)

\* s.replace(from, to) for single characters
Replace(s, from, to) == [k \in DOMAIN s |-> IF s[k] = from THEN to ELSE s[k]]

(* ------------------------------- state -------------------------------- *)

VARIABLES
    pc,            \* position of the single thread of control
    platform,      \* sys.platform
    args,          \* the parsed Namespace
    clipboard,     \* what pc.paste() would return: "valid" or "invalid" URL
    clipboardRead, \* pc.paste() has been called
    prompted,      \* number of input() prompts shown
    cwd,           \* process working directory, a path (sequence of names)
    dirs,          \* directories that exist (paths)
    files,         \* regular files: <<dir, name>> -> content (the ID3 tag)
    videos,        \* titles of the YouTube objects of the batch
    i,             \* zero-based index of the item being processed
    yt,            \* facts of the current item: streams, thumbnail, metadata
    tag,           \* the in-memory eyed3 tag of the tagging step
    results,       \* per finished item: "completed" or "skippedRestricted"
    interrupted,   \* a KeyboardInterrupt has been raised in this run
    netCalls,      \* network calls made (resolve, download, thumbnail)
    downloads,     \* stream downloads started
    saves,         \* tag.save() calls made
    exitCode,      \* -1 while running, else the process exit code
    exitMsg,       \* which message the process ended with
    sel,           \* inputs and result of a selection function checked alone
    san,           \* input and results of remove_forbidden checked alone
    progressUpdates, \* progress_update calls made
    narrated,      \* a verbose console message has been printed
    answer         \* what the user typed at the prompt of get_urls

vars == <<pc, platform, args, clipboard, clipboardRead, prompted, cwd, dirs,
          files, videos, i, yt, tag, results, interrupted, netCalls,
          downloads, saves, exitCode, exitMsg, sel, san, progressUpdates, narrated,
          answer>>

(* --------------------------- remove_forbidden ------------------------- *)

forbidden_symbols == IF platform = "win32" THEN Win32Forbidden ELSE {}

remove_forbidden(s) ==
    LET s1 == [k \in DOMAIN s |-> IF s[k] \in forbidden_symbols THEN Underscore ELSE s[k]]
    IN  [k \in DOMAIN s1 |-> IF s1[k] <= MaxAscii THEN s1[k] ELSE Underscore]

(* ------------------------------ file system --------------------------- *)

Root == <<>>

\* Content of a file: its ID3 tag, and rev, the number of times this run has
\* written the file (0: the file is as the run found it).
NoTag == [tagged |-> FALSE, artist |-> None, title |-> None, album |-> None, cover |-> FALSE,
          rev |-> 0]

Parent(d) == SubSeq(d, 1, Len(d) - 1)

FilesIn(d) == {p[2] : p \in {q \in DOMAIN files : q[1] = d}}

SubdirsIn(d) == {x[Len(x)] : x \in {y \in dirs : Len(y) = Len(d) + 1 /\ Parent(y) = d}}

\* os.listdir() of directory d
listdir(d) == FilesIn(d) \cup SubdirsIn(d)

\* the file system after writing (creating or overwriting) a file
WriteFile(fs, d, name, content) ==
    LET written == IF <<d, name>> \in DOMAIN fs THEN fs[<<d, name>>].rev + 1 ELSE 1
    IN  [p \in DOMAIN fs \cup {<<d, name>>} |->
            IF p = <<d, name>> THEN [content EXCEPT !.rev = written] ELSE fs[p]]

\* the file system after os.remove of an existing file
RemoveFile(fs, d, name) == [p \in DOMAIN fs \ {<<d, name>>} |-> fs[p]]

(* ------------------------- streams (pytube) --------------------------- *)

\* A stream descriptor.  abr and res are the integers pytube's order_by
\* sorts by ("160kbps" -> 160, "720p" -> 720); 0 stands for None.
Stream(itag, type, subtype, abr, res, progressive) ==
    [itag |-> itag, type |-> type, subtype |-> subtype, abr |-> abr,
     res |-> res, progressive |-> progressive]

\* what first() and last() return on an empty query
NoStream == Stream(0, "none", "none", 0, 0, FALSE)

\* StreamQuery.filter(type=t)
filter_type(streams, t) == SelectSeq(streams, LAMBDA s : s.type = t)

\* StreamQuery.filter(type='video', subtype='mp4')
filter_video_mp4(streams) ==
    SelectSeq(streams, LAMBDA s : s.type = "video" /\ s.subtype = "mp4")

\* StreamQuery.filter(type='video', progressive=True, subtype='mp4')
filter_progressive_mp4(streams) ==
    SelectSeq(streams, LAMBDA s : s.type = "video" /\ s.subtype = "mp4" /\ s.progressive)

\* x put behind every element of the sorted sequence whose key is <= x's
InsertStable(sorted, x, attr) ==
    LET n == Cardinality({k \in DOMAIN sorted : sorted[k][attr] <= x[attr]})
    IN  SubSeq(sorted, 1, n) \o <<x>> \o SubSeq(sorted, n + 1, Len(sorted))

RECURSIVE SortStable(_, _)
SortStable(s, attr) ==
    IF Len(s) = 0 THEN <<>>
    ELSE InsertStable(SortStable(SubSeq(s, 1, Len(s) - 1), attr), s[Len(s)], attr)

\* StreamQuery.order_by(attr): streams without the attribute are dropped,
\* the rest sorted ascending by its integer value (sorted() is stable)
order_by(streams, attr) ==
    SortStable(SelectSeq(streams, LAMBDA s : s[attr] # 0), attr)

\* StreamQuery.desc()
desc(streams) == [k \in DOMAIN streams |-> streams[Len(streams) + 1 - k]]

\* StreamQuery.first()
first(streams) == IF Len(streams) = 0 THEN NoStream ELSE streams[1]

\* StreamQuery.last()
last(streams) == IF Len(streams) = 0 THEN NoStream ELSE streams[Len(streams)]

SetMax(S) == CHOOSE m \in S : \A x \in S : x <= m

(* --------------------------- stream selection ------------------------- *)

\* download_video_part had it taken the first of the best streams
download_video_part_takes_first(streams, max_resolution) ==
    LET suitable == {streams[k].res : k \in {j \in DOMAIN streams : streams[j].res <= max_resolution}}
    IN  IF suitable = {} THEN [ok |-> FALSE, stream |-> NoStream]
        ELSE LET max_suitable_resolution == SetMax(suitable)
                 best_video_streams ==
                     SelectSeq(streams, LAMBDA s : s.res <= max_suitable_resolution)
             IN  [ok |-> TRUE, stream |-> best_video_streams[1]]

\* download_video_part up to its download: [ok, stream].  max() of an empty
\* filter raises ValueError before anything is downloaded.
download_video_part(streams, max_resolution) ==
    LET suitable == {streams[k].res : k \in {j \in DOMAIN streams : streams[j].res <= max_resolution}}
    IN  IF suitable = {} THEN [ok |-> FALSE, stream |-> NoStream]
        ELSE LET max_suitable_resolution == SetMax(suitable)
                 best_video_streams ==
                     SelectSeq(streams, LAMBDA s : s.res <= max_suitable_resolution)
             IN  [ok |-> TRUE, stream |-> best_video_streams[Len(best_video_streams)]]

\* download_audio_part had it left out desc()
download_audio_part_ascending(streams) ==
    LET stream == first(order_by(streams, "abr"))
    IN  [ok |-> stream # NoStream, stream |-> stream]

\* download_audio_part up to its download: None.download() raises
\* AttributeError when the query is empty.
download_audio_part(streams) ==
    LET stream == first(desc(order_by(streams, "abr")))
    IN  [ok |-> stream # NoStream, stream |-> stream]

\* the selection at the head of download_audio; None.abr / None.mime_type
\* raises AttributeError when there is no audio stream
download_audio_select(all_streams) ==
    LET stream == last(order_by(filter_type(all_streams, "audio"), "abr"))
    IN  [ok |-> stream # NoStream, stream |-> stream]

\* the selection at the head of the progressive branch of download_video
progressive_select(all_streams) ==
    LET best_stream == last(order_by(filter_progressive_mp4(all_streams), "res"))
    IN  [ok |-> best_stream # NoStream, stream |-> best_stream]

(* ------------------------------ inputs -------------------------------- *)

\* video titles: "a" and "e-acute" (a non-ASCII title)
TitleA == <<97>>

TitleB == <<233>>

Titles == {TitleA, TitleB}

\* title of the playlist: "p l"
PlaylistTitle == <<112, 32, 108>>

\* values of the --artist, --title and --album overrides
ArgArtist == <<66>>

ArgTitle == <<84>>

ArgAlbum == <<76>>

\* yt.author
Author == <<67>>

\* provider metadata values of the keys Artist, Song, Album
ProviderValue(key) ==
    CASE key = "Artist" -> <<65>>
      [] key = "Song" -> <<83>>
      [] key = "Album" -> <<77>>

MetaKeys == {"Artist", "Song", "Album"}

\* the non-empty title lists of at most n titles that start with TitleA, the
\* title the initial file systems below know
TitleLists(n) == {t \in UNION {[1..k -> Titles] : k \in 1..n} : t[1] = TitleA}

\* the provider metadata dict with the given keys
Metadata(keys) == [k \in keys |-> ProviderValue(k)]

\* what the YouTube object of an item of the batch may resolve to
YtCatalog ==
    { \* progressive video, adaptive video, best audio in an mp4 container
      [streams |-> << Stream(1, "video", "mp4", 96, 360, TRUE),
                      Stream(2, "video", "mp4", 0, 720, FALSE),
                      Stream(3, "audio", "webm", 70, 0, FALSE),
                      Stream(4, "audio", "mp4", 128, 0, FALSE) >>,
       metadata |-> Metadata({})],
      \* best audio in a webm container, provider metadata present
      [streams |-> << Stream(1, "video", "mp4", 96, 360, TRUE),
                      Stream(2, "video", "mp4", 0, 720, FALSE),
                      Stream(3, "audio", "mp4", 128, 0, FALSE),
                      Stream(4, "audio", "webm", 160, 0, FALSE) >>,
       metadata |-> Metadata(MetaKeys)],
      \* no audio stream, and no video at or below the default cap
      [streams |-> << Stream(1, "video", "mp4", 96, 1440, TRUE) >>,
       metadata |-> Metadata({})],
      \* no video stream
      [streams |-> << Stream(1, "audio", "webm", 160, 0, FALSE) >>,
       metadata |-> Metadata({})] }

\* a tag as a previous run left it on a completed audio file
PriorTag == [tagged |-> TRUE, artist |-> Author, title |-> TitleA, album |-> TitleA, cover |-> TRUE,
             rev |-> 0]

\* name of the playlist directory (get_urls)
dir_name == PlaylistDirPrefix \o remove_forbidden(Replace(PlaylistTitle, Space[1], Underscore))

\* name of a temporary directory left by an earlier run (another process id)
StaleTemp == Digits(Pid + 1) \o <<Underscore>> \o TitleA

EmptyFS == [p \in {} |-> NoTag]

\* file systems a run in the start directory may find
UrlInitialFS ==
    { [dirs |-> {Root}, files |-> EmptyFS],
      [dirs |-> {Root}, files |-> (<<Root, TitleA \o Dot \o ExtMp3>> :> PriorTag)],
      [dirs |-> {Root}, files |-> (<<Root, TitleA \o Dot \o ExtMp4>> :> NoTag)] }

\* file systems a playlist run may find
PlaylistInitialFS ==
    { [dirs |-> {Root}, files |-> EmptyFS],
      [dirs |-> {Root, <<dir_name>>}, files |-> EmptyFS],
      [dirs |-> {Root, <<dir_name>>},
       files |-> (<<(<<dir_name>>), Pad3(0) \o Dash \o TitleA \o Dot \o ExtMp3>> :> PriorTag)],
      [dirs |-> {Root, <<dir_name>>, <<dir_name, StaleTemp>>},
       files |-> (<<(<<dir_name>>), TitleA \o Dot \o ExtMp4>> :> NoTag)] }

Formats == {"audio", "video", "both"}

CompressLevels ==
    {MinCompressLevel - 1, MinCompressLevel, DefaultCompressLevel, MaxCompressLevel,
     MaxCompressLevel + 1}

NoOverrides == [artist |-> None, title |-> None, album |-> None]

\* the tagging options the batch specification draws from: the default,
\* --exclude_metadata, and --exclude_metadata with --album
TaggingOptions ==
    { [add_metadata |-> TRUE, overrides |-> NoOverrides],
      [add_metadata |-> FALSE, overrides |-> NoOverrides],
      [add_metadata |-> FALSE, overrides |-> [NoOverrides EXCEPT !.album = ArgAlbum]] }

\* args.url when -u was not given; only its truth value is ever read
NoUrls == <<>>

Sources ==
    {[url |-> u, playlist |-> None, clipboard |-> FALSE] : u \in TitleLists(MaxItems)}
    \cup {[url |-> NoUrls, playlist |-> PlaylistTitle, clipboard |-> FALSE]}
    \cup {[url |-> NoUrls, playlist |-> None, clipboard |-> TRUE]}

\* the Namespace parse_args returns
Namespace(src, fmt, dev, level, meta, ov) ==
    [url |-> src.url, playlist |-> src.playlist, clipboard |-> src.clipboard,
     format |-> fmt, development |-> dev, compress_level |-> level,
     max_resolution |-> DefaultMaxResolution, add_metadata |-> meta,
     artist |-> ov.artist, title |-> ov.title, album |-> ov.album,
     silent |-> FALSE, single_progress_bar |-> FALSE]

\* the settings of --silent and --single-progress-bar the batch specification
\* draws from
DisplayOptions ==
    { [silent |-> FALSE, single_progress_bar |-> FALSE],
      [silent |-> TRUE, single_progress_bar |-> FALSE],
      [silent |-> FALSE, single_progress_bar |-> TRUE] }

NoYt == [streams |-> <<>>, metadata |-> Metadata({})]

NoSel == [fn |-> "none", streams |-> <<>>, cap |-> 0, ok |-> FALSE, stream |-> NoStream]

NoSan == [s |-> <<>>, once |-> <<>>, twice |-> <<>>, calls |-> 0]

\* answer while input() has not been called
NoAnswer == "none"

Init ==
    /\ pc = "get_args"
    /\ platform = "linux"
    /\ \E src \in Sources, fmt \in Formats, dev \in BOOLEAN, level \in CompressLevels,
          opt \in TaggingOptions, disp \in DisplayOptions :
          /\ (fmt = "audio" => ~dev)
          \* the tagging options are read by download_audio only
          /\ (fmt = "video" => opt = [add_metadata |-> TRUE, overrides |-> NoOverrides])
          \* after get_args a clipboard run is a run with one URL
          /\ (src.clipboard =>
                 fmt = "audio" /\ opt = [add_metadata |-> TRUE, overrides |-> NoOverrides])
          \* a level other than the default is combined with the default options
          /\ (level # DefaultCompressLevel =>
                 fmt = "audio" /\ opt = [add_metadata |-> TRUE, overrides |-> NoOverrides])
          \* --silent and --single-progress-bar are combined with the audio
          \* format, the default level and the default tagging options
          /\ ((disp.silent \/ disp.single_progress_bar) =>
                 /\ fmt = "audio"
                 /\ level = DefaultCompressLevel
                 /\ opt = [add_metadata |-> TRUE, overrides |-> NoOverrides])
          /\ args = [Namespace(src, fmt, dev, level, opt.add_metadata, opt.overrides)
                       EXCEPT !.silent = disp.silent,
                              !.single_progress_bar = disp.single_progress_bar]
    /\ clipboard \in IF args.clipboard THEN {TitleA, None} ELSE {None}
    /\ \E fs \in IF args.playlist # None THEN PlaylistInitialFS ELSE UrlInitialFS :
          dirs = fs.dirs /\ files = fs.files
    /\ clipboardRead = FALSE
    /\ prompted = 0
    /\ cwd = Root
    /\ videos = <<>>
    /\ i = 0
    /\ yt = NoYt
    /\ tag = NoTag
    /\ results = <<>>
    /\ interrupted = FALSE
    /\ netCalls = 0
    /\ downloads = 0
    /\ saves = 0
    /\ exitCode = -1
    /\ exitMsg = "none"
    /\ sel = NoSel
    /\ san = NoSan
    /\ progressUpdates = 0
    /\ narrated = FALSE
    /\ answer = NoAnswer

(* ------------------------------ get_args ------------------------------ *)

\* exit(code) with the message printed before it
Exit(code, msg) == pc' = "exited" /\ exitCode' = code /\ exitMsg' = msg

Running == UNCHANGED <<exitCode, exitMsg>>

\* the range check had its upper end been off by one
compress_level_ok_upper_off_by_one(level) == MinCompressLevel <= level /\ level <= MaxCompressLevel + 1

\* the range check of get_args
compress_level_ok(level) == MinCompressLevel <= level /\ level <= MaxCompressLevel

\* parse_args has run; validation of the level, then the clipboard
get_args ==
    /\ pc = "get_args"
    /\ IF ~compress_level_ok(args.compress_level)
       THEN Exit(1, "invalid compress level") /\ UNCHANGED <<args, clipboardRead>>
       ELSE IF args.clipboard
            THEN /\ clipboardRead' = TRUE
                 /\ IF clipboard # None
                    THEN /\ args' = [args EXCEPT !.url = <<clipboard>>]
                         /\ pc' = "get_urls"
                         /\ Running
                    ELSE Exit(1, "invalid clipboard url") /\ UNCHANGED args
            ELSE pc' = "get_urls" /\ Running /\ UNCHANGED <<args, clipboardRead>>
    /\ UNCHANGED <<platform, clipboard, prompted, cwd, dirs, files, videos, i, yt, tag,
                   results, interrupted, netCalls, downloads, saves, sel, san, progressUpdates, narrated, answer>>

(* ------------------------------ get_urls ------------------------------ *)

\* str.lower() of the answers the prompt is given
Lower(resp) == IF resp = "Y" THEN "y" ELSE resp

Answers == {"y", "Y", "n"}

\* the files of directory d removed from the file system
ClearFiles(fs, d, names) == [p \in {q \in DOMAIN fs : ~(q[1] = d /\ q[2] \in names)} |-> fs[p]]

\* the directory is ready: get_urls goes on to list the playlist
ToListing == pc' = "list_videos" /\ Running

\* the playlist branch up to the listing, and the url branch; every exception,
\* a KeyboardInterrupt included, is caught by the bare except and ends in exit(1)
get_urls ==
    /\ pc = "get_urls"
    /\ IF args.playlist # None
       THEN \E outcome \in {"ok", "error", "interrupt"} :
            LET d == cwd \o <<dir_name>> IN
            /\ netCalls' = netCalls + 1
            /\ videos' = videos
            /\ IF outcome # "ok"
               THEN /\ Exit(1, "failed to download media")
                    /\ interrupted' = (outcome = "interrupt")
                    /\ UNCHANGED <<cwd, dirs, files, prompted, answer>>
               ELSE IF d \in dirs
                    THEN /\ cwd' = d
                         /\ dirs' = dirs
                         /\ IF listdir(d) # {}
                            THEN /\ prompted' = prompted + 1
                                 /\ \E resp \in Answers \cup {"interrupt"} :
                                    CASE resp = "interrupt" ->
                                           /\ Exit(1, "failed to download media")
                                           /\ interrupted' = TRUE
                                           /\ UNCHANGED <<files, answer>>
                                      [] Lower(resp) = "y" /\ SubdirsIn(d) # {} ->
                                           \* os.remove of a directory raises; the
                                           \* files listed before it are gone
                                           /\ answer' = resp
                                           /\ \E gone \in SUBSET FilesIn(d) :
                                                 files' = ClearFiles(files, d, gone)
                                           /\ Exit(1, "failed to download media")
                                           /\ UNCHANGED interrupted
                                      [] Lower(resp) = "y" /\ SubdirsIn(d) = {} ->
                                           /\ answer' = resp
                                           /\ files' = ClearFiles(files, d, FilesIn(d))
                                           /\ ToListing
                                           /\ UNCHANGED interrupted
                                      [] OTHER ->
                                           /\ answer' = resp
                                           /\ files' = files
                                           /\ ToListing
                                           /\ UNCHANGED interrupted
                            ELSE ToListing /\ UNCHANGED <<files, prompted, interrupted, answer>>
                    ELSE /\ dirs' = dirs \cup {d}
                         /\ cwd' = d
                         /\ ToListing
                         /\ UNCHANGED <<files, prompted, interrupted, answer>>
       ELSE \E outcome \in {"ok", "error"} :
            /\ IF outcome = "ok"
               THEN videos' = args.url /\ pc' = "loop" /\ Running
               ELSE videos' = videos /\ Exit(1, "failed to download media")
            /\ UNCHANGED <<cwd, dirs, files, prompted, interrupted, netCalls, answer>>
    /\ UNCHANGED <<platform, args, clipboard, clipboardRead, i, yt, tag, results,
                   downloads, saves, sel, san, progressUpdates, narrated>>

\* videos = list(playlist.videos): the listing, possibly of an empty playlist;
\* the url branch that follows is not taken (args.url is None)
list_videos ==
    /\ pc = "list_videos"
    /\ netCalls' = netCalls + 1
    /\ \E outcome \in {"ok", "error", "interrupt"} :
       IF outcome = "ok"
       THEN /\ \E vs \in {<<>>} \cup TitleLists(MaxItems) : videos' = vs
            /\ pc' = "loop"
            /\ Running
            /\ UNCHANGED interrupted
       ELSE /\ videos' = videos
            /\ Exit(1, "failed to download media")
            /\ interrupted' = (outcome = "interrupt")
    /\ UNCHANGED <<platform, args, clipboard, clipboardRead, prompted, cwd, dirs, files, i,
                   yt, tag, results, downloads, saves, sel, san, progressUpdates, narrated,
                   answer>>

(* -------------------------------- names ------------------------------- *)

\* title of the item being processed (yt.title, taken to be available for
\* every item of the batch)
title == videos[i + 1]

\* the prefix had it counted the items downloaded so far, not the position
prefix_renumbered_after_skip ==
    IF args.playlist = None THEN <<>>
    ELSE Pad3(Cardinality({k \in DOMAIN results : results[k] = "completed"}))

\* prefix of the audio output: the position in a playlist, else nothing
prefix == IF args.playlist = None THEN <<>> ELSE Pad3(i)

\* f'{prefix}{"-" if len(prefix) > 0 else ""}{out_base}.mp3'
out_final_name(pre, t) ==
    pre \o (IF Len(pre) > 0 THEN Dash ELSE <<>>) \o remove_forbidden(t) \o Dot \o ExtMp3

Ext(subtype) == IF subtype = "mp4" THEN ExtMp4 ELSE ExtWebm

\* f'{out_base}.{out_ext}', the intermediate download of the audio path
out_filename_name(t, stream) == remove_forbidden(t) \o Dot \o Ext(stream.subtype)

\* remove_forbidden(yt.title + '.' + subtype), the progressive video output
progressive_name(t, stream) == remove_forbidden(t \o Dot \o Ext(stream.subtype))

\* f'{title}.mp4', the merged video
final_video_filename(t) == remove_forbidden(t) \o Dot \o ExtMp4

\* f'{os.getpid()}_{remove_forbidden(yt.title)}'
current_process_id(t) == Digits(Pid) \o <<Underscore>> \o remove_forbidden(t)

\* Stream.default_filename, the name download() uses when given none
default_filename(t, stream) == t \o Dot \o Ext(stream.subtype)

(* ------------------------------ main loop ----------------------------- *)

\* an exception no handler catches: traceback, exit status 1
Crash == Exit(1, "traceback")

\* KeyboardInterrupt reaching the handler of main
Cancel == Exit(1, "canceled")

\* the item is done: the for loop takes the next one
NextItem(status) ==
    /\ i' = i + 1
    /\ results' = Append(results, status)
    /\ yt' = IF status = "completed" THEN yt ELSE NoYt
    /\ pc' = "loop"
    /\ Running

\* the condition that guards the tagging block of download_audio
Truthy(x) == x # None /\ x # <<>>

wants_tagging == args.add_metadata \/ Truthy(args.artist) \/ Truthy(args.title) \/ Truthy(args.album)

\* verbose_cond of main
verbose_cond == args.playlist = None

\* verbose of main
verbose == ~args.silent /\ verbose_cond /\ ~args.single_progress_bar

\* a print guarded by 'if verbose'
Narrate == narrated' = (narrated \/ verbose)

\* loop head of main: next item, progress_update, yt.streams, and the
\* dispatch on the format
main_loop ==
    /\ pc = "loop"
    /\ IF i = Len(videos)
       THEN /\ Exit(0, "none")
            /\ UNCHANGED <<i, yt, results, interrupted, netCalls, progressUpdates>>
       ELSE \E outcome \in {"ok", "MembersOnly", "AgeRestrictedError", "RegexMatchError",
                            "error", "interrupt"} :
            /\ progressUpdates' = IF ~verbose_cond THEN progressUpdates + 1 ELSE progressUpdates
            /\ netCalls' = netCalls + 1
            /\ interrupted' = (interrupted \/ outcome = "interrupt")
            /\ CASE outcome = "ok" ->
                      /\ yt' \in YtCatalog
                      /\ pc' = IF args.format \in {"video", "both"} THEN "download_video"
                               ELSE "download_audio"
                      /\ Running
                      /\ UNCHANGED <<i, results>>
                 [] outcome \in {"MembersOnly", "AgeRestrictedError", "RegexMatchError"} ->
                      NextItem("skippedRestricted")
                 [] outcome = "error" -> Crash /\ UNCHANGED <<i, yt, results>>
                 [] outcome = "interrupt" -> Cancel /\ UNCHANGED <<i, yt, results>>
    /\ UNCHANGED <<platform, args, clipboard, clipboardRead, prompted, cwd, dirs, files,
                   videos, tag, downloads, saves, sel, san, narrated, answer>>

(* ---------------------------- download_video -------------------------- *)

\* download_video has returned: main goes on with the audio step or the next item
AfterVideo ==
    IF args.format = "both"
    THEN pc' = "download_audio" /\ Running /\ UNCHANGED <<i, yt, results>>
    ELSE NextItem("completed")

\* the finally clause had it left out os.chdir('..')
chdir_parent_left_out == cwd' = cwd

\* os.chdir('..') of the finally clause
chdir_parent == cwd' = Parent(cwd)

\* An exception inside the try block of the advanced path: KeyboardInterrupt
\* is caught there and download_video returns normally; anything else passes
\* through.  The finally clause runs in both cases.
AdvancedRaise(outcome) ==
    /\ chdir_parent
    /\ interrupted' = (interrupted \/ outcome = "interrupt")
    /\ IF outcome = "interrupt" THEN AfterVideo ELSE Crash /\ UNCHANGED <<i, yt, results>>

\* entry of download_video: the temporary directory of the advanced path, or
\* the selection and the existence check of the progressive path
download_video ==
    /\ pc = "download_video"
    /\ IF args.development
       THEN LET temp == cwd \o <<current_process_id(title)>> IN
            /\ Narrate
            /\ IF current_process_id(title) \in listdir(cwd)
               THEN \* os.mkdir raises FileExistsError, outside the try block
                    Crash /\ UNCHANGED <<cwd, dirs, i, yt, results>>
               ELSE /\ dirs' = dirs \cup {temp}
                    /\ cwd' = temp
                    /\ pc' = "audio_part"
                    /\ Running
                    /\ UNCHANGED <<i, yt, results>>
       ELSE LET best == progressive_select(yt.streams) IN
            /\ UNCHANGED <<cwd, dirs>>
            /\ IF ~best.ok
               THEN Crash /\ UNCHANGED <<i, yt, results, narrated>>
               ELSE IF progressive_name(title, best.stream) \in listdir(cwd)
                    THEN AfterVideo /\ UNCHANGED narrated
                    ELSE /\ pc' = "progressive_fetch"
                         /\ Narrate
                         /\ Running
                         /\ UNCHANGED <<i, yt, results>>
    /\ UNCHANGED <<platform, args, clipboard, clipboardRead, prompted, files, videos, tag,
                   interrupted, netCalls, downloads, saves, sel, san, progressUpdates, answer>>

\* best_stream.download(filename=filename) of the progressive path
progressive_fetch ==
    /\ pc = "progressive_fetch"
    /\ \E outcome \in {"ok", "error", "interrupt"} :
       LET best == progressive_select(yt.streams) IN
       /\ netCalls' = netCalls + 1
       /\ downloads' = downloads + 1
       /\ interrupted' = (interrupted \/ outcome = "interrupt")
       /\ CASE outcome = "ok" ->
                 /\ files' = WriteFile(files, cwd, progressive_name(title, best.stream), NoTag)
                 /\ AfterVideo
            [] outcome = "error" -> Crash /\ UNCHANGED <<files, i, yt, results>>
            [] outcome = "interrupt" -> Cancel /\ UNCHANGED <<files, i, yt, results>>
    /\ UNCHANGED <<platform, args, clipboard, clipboardRead, prompted, cwd, dirs, videos,
                   tag, saves, sel, san, progressUpdates, narrated, answer>>

\* download_audio_part(all_streams.filter(type='audio'), verbose)
audio_part ==
    /\ pc = "audio_part"
    /\ LET chosen == download_audio_part(filter_type(yt.streams, "audio")) IN
       IF ~chosen.ok
       THEN AdvancedRaise("error") /\ UNCHANGED <<files, netCalls, downloads>>
       ELSE \E outcome \in {"ok", "error", "interrupt"} :
            /\ netCalls' = netCalls + 1
            /\ downloads' = downloads + 1
            /\ IF outcome = "ok"
               THEN /\ files' = WriteFile(files, cwd, default_filename(title, chosen.stream), NoTag)
                    /\ pc' = "video_part"
                    /\ Running
                    /\ UNCHANGED <<cwd, i, yt, results, interrupted>>
               ELSE AdvancedRaise(outcome) /\ UNCHANGED files
    /\ UNCHANGED <<platform, args, clipboard, clipboardRead, prompted, dirs, videos, tag,
                   saves, sel, san, progressUpdates, narrated, answer>>

\* download_video_part(all_streams.filter(type='video', subtype='mp4')
\*                     .order_by('resolution'), args.max_resolution, verbose)
video_part ==
    /\ pc = "video_part"
    /\ LET chosen == download_video_part(order_by(filter_video_mp4(yt.streams), "res"),
                                         args.max_resolution) IN
       IF ~chosen.ok
       THEN AdvancedRaise("error") /\ UNCHANGED <<files, netCalls, downloads>>
       ELSE \E outcome \in {"ok", "error", "interrupt"} :
            /\ netCalls' = netCalls + 1
            /\ downloads' = downloads + 1
            /\ IF outcome = "ok"
               THEN /\ files' = WriteFile(files, cwd, default_filename(title, chosen.stream), NoTag)
                    /\ pc' = "merge"
                    /\ Running
                    /\ UNCHANGED <<cwd, i, yt, results, interrupted>>
               ELSE AdvancedRaise(outcome) /\ UNCHANGED files
    /\ UNCHANGED <<platform, args, clipboard, clipboardRead, prompted, dirs, videos, tag,
                   saves, sel, san, progressUpdates, narrated, answer>>

\* write_videofile into the temporary directory, then shutil.move of the
\* result to os.pardir, which raises when the destination already exists
merge ==
    /\ pc = "merge"
    /\ \E outcome \in {"ok", "error", "interrupt"} :
       LET name == final_video_filename(title)
           merged == WriteFile(files, cwd, name, NoTag)
       IN  IF outcome = "ok"
           THEN IF name \in listdir(Parent(cwd))
                THEN files' = merged /\ AdvancedRaise("error")
                ELSE /\ files' = WriteFile(RemoveFile(merged, cwd, name), Parent(cwd), name, NoTag)
                     /\ chdir_parent
                     /\ AfterVideo
                     /\ UNCHANGED interrupted
           ELSE AdvancedRaise(outcome) /\ UNCHANGED files
    /\ UNCHANGED <<platform, args, clipboard, clipboardRead, prompted, dirs, videos, tag,
                   netCalls, downloads, saves, sel, san, progressUpdates, narrated, answer>>

(* ---------------------------- download_audio -------------------------- *)

\* the tagging block is entered, or download_audio returns
AfterAssembly ==
    IF wants_tagging
    THEN pc' = "tagging" /\ Running /\ UNCHANGED <<i, yt, results>>
    ELSE NextItem("completed")

\* entry of download_audio: the selection and the existence check
download_audio ==
    /\ pc = "download_audio"
    /\ LET chosen == download_audio_select(yt.streams) IN
       IF ~chosen.ok
       THEN Crash /\ UNCHANGED <<i, yt, results, narrated>>
       ELSE /\ Narrate
            /\ IF out_final_name(prefix, title) \notin listdir(cwd)
               THEN pc' = "audio_fetch" /\ Running /\ UNCHANGED <<i, yt, results>>
               ELSE AfterAssembly
    /\ UNCHANGED <<platform, args, clipboard, clipboardRead, prompted, cwd, dirs, files,
                   videos, tag, interrupted, netCalls, downloads, saves, sel, san,
                   progressUpdates, answer>>

\* stream.download(filename=out_filename)
audio_fetch ==
    /\ pc = "audio_fetch"
    /\ \E outcome \in {"ok", "error", "interrupt"} :
       LET chosen == download_audio_select(yt.streams) IN
       /\ netCalls' = netCalls + 1
       /\ downloads' = downloads + 1
       /\ interrupted' = (interrupted \/ outcome = "interrupt")
       /\ CASE outcome = "ok" ->
                 /\ files' = WriteFile(files, cwd, out_filename_name(title, chosen.stream), NoTag)
                 /\ pc' = "transcode"
                 /\ Running
            [] outcome = "error" -> Crash /\ UNCHANGED files
            [] outcome = "interrupt" -> Cancel /\ UNCHANGED files
    /\ UNCHANGED <<platform, args, clipboard, clipboardRead, prompted, cwd, dirs, videos,
                   i, yt, tag, results, saves, sel, san, progressUpdates, narrated, answer>>

\* the transcode step had it left out os.remove(out_filename)
transcode_keeps_intermediate ==
    /\ pc = "transcode"
    /\ \E outcome \in {"ok", "error", "interrupt"} :
       /\ interrupted' = (interrupted \/ outcome = "interrupt")
       /\ CASE outcome = "ok" ->
                 /\ files' = WriteFile(files, cwd, out_final_name(prefix, title), NoTag)
                 /\ AfterAssembly
            [] outcome = "error" -> Crash /\ UNCHANGED <<files, i, yt, results>>
            [] outcome = "interrupt" -> Cancel /\ UNCHANGED <<files, i, yt, results>>
    /\ UNCHANGED <<platform, args, clipboard, clipboardRead, prompted, cwd, dirs, videos,
                   tag, netCalls, downloads, saves, sel, san, progressUpdates, narrated,
                   answer>>

\* write_audiofile(out_final), then os.remove(out_filename)
transcode ==
    /\ pc = "transcode"
    /\ \E outcome \in {"ok", "error", "interrupt"} :
       LET chosen == download_audio_select(yt.streams) IN
       /\ interrupted' = (interrupted \/ outcome = "interrupt")
       /\ CASE outcome = "ok" ->
                 /\ files' = RemoveFile(WriteFile(files, cwd, out_final_name(prefix, title), NoTag),
                                        cwd, out_filename_name(title, chosen.stream))
                 /\ AfterAssembly
            [] outcome = "error" -> Crash /\ UNCHANGED <<files, i, yt, results>>
            [] outcome = "interrupt" -> Cancel /\ UNCHANGED <<files, i, yt, results>>
    /\ UNCHANGED <<platform, args, clipboard, clipboardRead, prompted, cwd, dirs, videos,
                   tag, netCalls, downloads, saves, sel, san, progressUpdates, narrated, answer>>

(* ------------------------------- tagging ------------------------------ *)

\* d[key] = value on a dict
DictSet(d, key, value) == [k \in DOMAIN d \cup {key} |-> IF k = key THEN value ELSE d[k]]

\* the three override statements applied to the provider metadata
apply_overrides(yt_metadata) ==
    LET m1 == IF args.artist # None THEN DictSet(yt_metadata, "Artist", args.artist) ELSE yt_metadata
        m2 == IF args.title # None THEN DictSet(m1, "Song", args.title) ELSE m1
    IN  IF args.title # None THEN DictSet(m2, "Album", args.album) ELSE m2

\* the three fields set on the fresh tag
set_fields(yt_metadata, t) ==
    [tagged |-> TRUE,
     artist |-> IF "Artist" \in DOMAIN yt_metadata THEN yt_metadata["Artist"] ELSE Author,
     title |-> IF "Song" \in DOMAIN yt_metadata THEN yt_metadata["Song"] ELSE t,
     album |-> IF "Album" \in DOMAIN yt_metadata THEN yt_metadata["Album"] ELSE t,
     cover |-> FALSE,
     rev |-> 0]

\* the tagging block had it saved the tag as soon as the fields are set
tagging_saves_fields_early ==
    /\ pc = "tagging"
    /\ tag' = set_fields(apply_overrides(yt.metadata), title)
    /\ files' = WriteFile(files, cwd, out_final_name(prefix, title), tag')
    /\ saves' = saves + 1
    /\ pc' = "thumbnail"
    /\ Narrate
    /\ UNCHANGED <<platform, args, clipboard, clipboardRead, prompted, cwd, dirs, videos, i,
                   yt, results, interrupted, netCalls, downloads, exitCode, exitMsg, sel,
                   san, progressUpdates, answer>>

\* get_metadata, the overrides, eyed3.load, initTag and the field assignments
tagging ==
    /\ pc = "tagging"
    /\ tag' = set_fields(apply_overrides(yt.metadata), title)
    /\ pc' = "thumbnail"
    /\ Narrate
    /\ UNCHANGED <<platform, args, clipboard, clipboardRead, prompted, cwd, dirs, files,
                   videos, i, yt, results, interrupted, netCalls, downloads, saves,
                   exitCode, exitMsg, sel, san, progressUpdates, answer>>

\* what requests.get may do: answer with a status, raise a transport error,
\* or be interrupted
ThumbnailOutcomes ==
    { [kind |-> "response", status_code |-> HttpOk],
      [kind |-> "response", status_code |-> 404],
      [kind |-> "error", status_code |-> 0],
      [kind |-> "interrupt", status_code |-> 0] }

\* requests.get(yt.thumbnail_url), the cover image, tag.save()
thumbnail ==
    /\ pc = "thumbnail"
    /\ \E resp \in ThumbnailOutcomes :
       /\ netCalls' = netCalls + 1
       /\ interrupted' = (interrupted \/ resp.kind = "interrupt")
       /\ tag' = NoTag
       /\ CASE resp.kind = "response" ->
                 /\ files' = WriteFile(files, cwd, out_final_name(prefix, title),
                                       [tag EXCEPT !.cover = (resp.status_code = HttpOk)])
                 /\ saves' = saves + 1
                 /\ NextItem("completed")
            [] resp.kind = "error" -> Crash /\ UNCHANGED <<files, saves, i, yt, results>>
            [] resp.kind = "interrupt" -> Cancel /\ UNCHANGED <<files, saves, i, yt, results>>
    /\ UNCHANGED <<platform, args, clipboard, clipboardRead, prompted, cwd, dirs, videos,
                   downloads, sel, san, progressUpdates, narrated, answer>>

(* --------------------------- the batch program ------------------------ *)

Next ==
    \/ get_args
    \/ get_urls
    \/ list_videos
    \/ main_loop
    \/ download_video
    \/ progressive_fetch
    \/ audio_part
    \/ video_part
    \/ merge
    \/ download_audio
    \/ audio_fetch
    \/ transcode
    \/ tagging
    \/ thumbnail

Spec == Init /\ [][Next]_vars

(* ----------------- the tagging step, started on its own --------------- *)

AllOverrides ==
    {[artist |-> a, title |-> t, album |-> l] :
        a \in {None, ArgArtist}, t \in {None, ArgTitle}, l \in {None, ArgAlbum}}

\* download_audio of a single-URL run at the head of its tagging block: the
\* audio file has just been transcoded; every combination of overrides and of
\* provider metadata keys that lets the block run
InitTag ==
    /\ pc = "tagging"
    /\ platform = "linux"
    /\ \E meta \in BOOLEAN, ov \in AllOverrides :
          args = Namespace([url |-> <<TitleA>>, playlist |-> None, clipboard |-> FALSE],
                           "audio", FALSE, DefaultCompressLevel, meta, ov)
    /\ wants_tagging
    /\ clipboard = None
    /\ clipboardRead = FALSE
    /\ prompted = 0
    /\ cwd = Root
    /\ dirs = {Root}
    /\ files = WriteFile(EmptyFS, Root, out_final_name(<<>>, TitleA), NoTag)
    /\ videos = <<TitleA>>
    /\ i = 0
    /\ \E keys \in SUBSET MetaKeys :
          yt = [streams |-> <<Stream(1, "audio", "webm", 160, 0, FALSE)>>,
                metadata |-> Metadata(keys)]
    /\ tag = NoTag
    /\ results = <<>>
    /\ interrupted = FALSE
    /\ netCalls = 2
    /\ downloads = 1
    /\ saves = 0
    /\ exitCode = -1
    /\ exitMsg = "none"
    /\ sel = NoSel
    /\ san = NoSan
    /\ progressUpdates = 0
    /\ narrated = FALSE
    /\ answer = NoAnswer

NextTag == tagging \/ thumbnail

SpecTag == InitTag /\ [][NextTag]_vars

(* ------------------ the selection functions on their own -------------- *)

\* the kinds of stream the lists are drawn from: [type, subtype, abr, res]
StreamKinds ==
    { <<"audio", "mp4", 128, 0>>, <<"audio", "webm", 160, 0>>, <<"audio", "mp4", 160, 0>>,
      <<"video", "mp4", 0, 360>>, <<"video", "mp4", 0, 720>>, <<"video", "mp4", 0, 1440>> }

\* every stream list of at most n streams; a stream's itag is its position
StreamLists(n) ==
    { [k \in DOMAIN kinds |-> Stream(k, kinds[k][1], kinds[k][2], kinds[k][3], kinds[k][4], FALSE)] :
        kinds \in UNION {[1..m -> StreamKinds] : m \in 0..n} }

Caps == {240, 720, DefaultMaxResolution}

InitSel ==
    /\ pc = "select"
    /\ platform = "linux"
    /\ args = Namespace([url |-> <<TitleA>>, playlist |-> None, clipboard |-> FALSE],
                        "video", TRUE, DefaultCompressLevel, TRUE, NoOverrides)
    /\ clipboard = None
    /\ clipboardRead = FALSE
    /\ prompted = 0
    /\ cwd = Root
    /\ dirs = {Root}
    /\ files = EmptyFS
    /\ videos = <<TitleA>>
    /\ i = 0
    /\ yt = NoYt
    /\ tag = NoTag
    /\ results = <<>>
    /\ interrupted = FALSE
    /\ netCalls = 0
    /\ downloads = 0
    /\ saves = 0
    /\ exitCode = -1
    /\ exitMsg = "none"
    /\ \E streams \in StreamLists(MaxStreams), cap \in Caps :
          sel = [fn |-> "none", streams |-> streams, cap |-> cap, ok |-> FALSE, stream |-> NoStream]
    /\ san = NoSan
    /\ progressUpdates = 0
    /\ narrated = FALSE
    /\ answer = NoAnswer

\* a selection function applied: its result, and the download that follows
\* a successful selection
Selected(fn, chosen) ==
    /\ pc = "select"
    /\ pc' = "selected"
    /\ sel' = [sel EXCEPT !.fn = fn, !.ok = chosen.ok, !.stream = chosen.stream]
    /\ downloads' = IF chosen.ok THEN downloads + 1 ELSE downloads
    /\ netCalls' = IF chosen.ok THEN netCalls + 1 ELSE netCalls
    /\ UNCHANGED <<platform, args, clipboard, clipboardRead, prompted, cwd, dirs, files,
                   videos, i, yt, tag, results, interrupted, saves, exitCode, exitMsg,
                   san, progressUpdates, narrated, answer>>

\* download_video_part on the video streams of the list, in the list's order
select_video_part ==
    Selected("download_video_part", download_video_part(filter_type(sel.streams, "video"), sel.cap))

\* download_audio_part as download_video calls it
select_audio_part ==
    Selected("download_audio_part", download_audio_part(filter_type(sel.streams, "audio")))

\* the selection of download_audio
select_audio ==
    Selected("download_audio", download_audio_select(sel.streams))

NextSel == select_video_part \/ select_audio_part \/ select_audio

SpecSel == InitSel /\ [][NextSel]_vars

(* ---------------------- remove_forbidden on its own ------------------- *)

\* the characters the strings are drawn from: / : _ a e-acute
Alphabet == {47, 58, Underscore, 97, 233}

\* every string of at most n characters
Strings(n) == UNION {[1..k -> Alphabet] : k \in 0..n}

Platforms == {"linux", "win32"}

InitSan ==
    /\ pc = "sanitize"
    /\ platform \in Platforms
    /\ args = Namespace([url |-> <<TitleA>>, playlist |-> None, clipboard |-> FALSE],
                        "audio", FALSE, DefaultCompressLevel, TRUE, NoOverrides)
    /\ clipboard = None
    /\ clipboardRead = FALSE
    /\ prompted = 0
    /\ cwd = Root
    /\ dirs = {Root}
    /\ files = EmptyFS
    /\ videos = <<TitleA>>
    /\ i = 0
    /\ yt = NoYt
    /\ tag = NoTag
    /\ results = <<>>
    /\ interrupted = FALSE
    /\ netCalls = 0
    /\ downloads = 0
    /\ saves = 0
    /\ exitCode = -1
    /\ exitMsg = "none"
    /\ sel = NoSel
    /\ \E s \in Strings(MaxLen) : san = [s |-> s, once |-> <<>>, twice |-> <<>>, calls |-> 0]
    /\ progressUpdates = 0
    /\ narrated = FALSE
    /\ answer = NoAnswer

\* remove_forbidden applied to the string, and then to its own result
sanitize ==
    /\ pc = "sanitize"
    /\ san.calls < 2
    /\ san' = IF san.calls = 0
              THEN [san EXCEPT !.once = remove_forbidden(san.s), !.calls = 1]
              ELSE [san EXCEPT !.twice = remove_forbidden(san.once), !.calls = 2]
    /\ UNCHANGED <<pc, platform, args, clipboard, clipboardRead, prompted, cwd, dirs, files,
                   videos, i, yt, tag, results, interrupted, netCalls, downloads, saves,
                   exitCode, exitMsg, sel, progressUpdates, narrated, answer>>

NextSan == sanitize

SpecSan == InitSan /\ [][NextSan]_vars

(* ======================================================================= *)
(*                               properties                                *)
(* ======================================================================= *)

\* the directory the outputs of the batch go to
OutDir == IF args.playlist # None THEN <<dir_name>> ELSE Root

\* names of the temporary directories this run may create
TempNames == {current_process_id(t) : t \in Titles}

InAdvancedPath == pc \in {"audio_part", "video_part", "merge"}

\* C1: in the advanced video path the temporary directory of an item no
\* longer exists once download_video has returned or raised (success,
\* failure of a download or of the transcoder, keyboard interrupt).
C1_TempDirRemoved ==
    ~InAdvancedPath => \A d \in dirs : Len(d) = 0 \/ d[Len(d)] \notin TempNames

\* C2: once a keyboard interrupt has been raised while an item is processed,
\* nothing further is started: the process has exited with code 1.
C2_InterruptAborts == interrupted => (pc = "exited" /\ exitCode = 1)

\* C3: in a batch of more than one item a failure other than a restriction
\* is confined to its item: the loop never crashes, so a run that was not
\* interrupted ends with exit code 0 and a result for every item.
C3_FailureIsolated ==
    (Len(videos) > 1 /\ pc = "exited" /\ ~interrupted)
        => (exitCode = 0 /\ Len(results) = Len(videos))

\* f"{n:03d}" for n < 1000, written out digit by digit
ThreeDigits(n) == <<48 + (n \div 100), 48 + ((n \div 10) % 10), 48 + (n % 10)>>

\* the title of item k with every non-ASCII character replaced (no title of
\* the batch holds a character that is forbidden on the platform)
AsciiTitle(k) == [j \in DOMAIN videos[k] |-> IF videos[k][j] > 127 THEN 95 ELSE videos[k][j]]

\* <NNN->?<sanitized-title>.mp3 of the item at one-based position k
AudioOutput(k) ==
    (IF args.playlist # None THEN ThreeDigits(k - 1) \o <<45>> ELSE <<>>)
        \o AsciiTitle(k) \o <<46, 109, 112, 51>>

\* <sanitized-title>.mp4 of the item at one-based position k
VideoOutput(k) == AsciiTitle(k) \o <<46, 109, 112, 52>>

\* <sanitized-title>.webm, the other name an intermediate download may have
WebmIntermediate(k) == AsciiTitle(k) \o <<46, 119, 101, 98, 109>>

Skipped(k) == k <= Len(results) /\ results[k] = "skippedRestricted"

\* every file this run has written to the output directory belongs to an
\* item that was not skipped, and carries one of that item's names
C4_OnlyItemNames ==
    pc \notin {"get_args", "get_urls"} =>
        \A name \in FilesIn(OutDir) :
            files[<<OutDir, name>>].rev > 0 =>
                \E k \in 1..Len(videos) :
                    /\ k <= i + 1
                    /\ ~Skipped(k)
                    /\ name \in {AudioOutput(k), VideoOutput(k), WebmIntermediate(k)}

\* in audio format every completed item has its output under the prefix of
\* its own position
C4_PositionalPrefix ==
    args.format = "audio" =>
        \A k \in 1..Len(results) :
            results[k] = "completed" => <<OutDir, AudioOutput(k)>> \in DOMAIN files

\* the step that skips a restricted item downloads nothing, writes nothing,
\* raises nothing, and hands the loop the next item
C4_SkipStep ==
    (pc = "loop" /\ results' = Append(results, "skippedRestricted"))
        => /\ files' = files
           /\ dirs' = dirs
           /\ downloads' = downloads
           /\ saves' = saves
           /\ pc' = "loop"
           /\ i' = i + 1
           /\ exitCode' = -1

\* C4: a restricted item (members-only, age-restricted, pattern mismatch) is
\* skipped with no download, no output and no error, the loop goes on with the
\* next item, and the audio output of the item at zero-based position p is
\* prefixed with the three digits of p (no renumbering after a skip); outputs
\* of single-URL runs and video outputs carry no prefix.
C4_RestrictedSkipAndPrefix ==
    [](C4_OnlyItemNames /\ C4_PositionalPrefix) /\ [][C4_SkipStep]_vars

\* a playlist in audio format whose first item was skipped and whose second
\* item is done: the only file is 001-a.mp3
C4_Witness ==
    /\ args.playlist # None
    /\ args.format = "audio"
    /\ results = <<"skippedRestricted", "completed">>
    /\ videos[2] = TitleA
    /\ FilesIn(OutDir) = {<<48, 48, 49, 45, 97, 46, 109, 112, 51>>}

\* C5: in audio format, when the final audio file of the item is in the
\* output directory as the run found it, no step of download_audio makes a
\* network call, starts a download, saves a tag or changes any file.
C5_ExistingAudioUntouched ==
    [][(/\ pc \in {"download_audio", "tagging", "thumbnail"}
        /\ args.format = "audio"
        /\ <<cwd, out_final_name(prefix, title)>> \in DOMAIN files
        /\ files[<<cwd, out_final_name(prefix, title)>>].rev = 0)
          => (/\ files' = files
              /\ netCalls' = netCalls
              /\ downloads' = downloads
              /\ saves' = saves)]_vars

\* explicit override > provider value > fallback
Precedence(override, metadata, key, fallback) ==
    IF override # None THEN override
    ELSE IF key \in DOMAIN metadata THEN metadata[key]
    ELSE fallback

\* C6: each committed tag field is the override if one was supplied, else
\* the provider's value if the key is present, else the fallback (author for
\* the artist, the video title for title and album).
C6_TagPrecedence ==
    saves > 0 =>
        LET f == files[<<Root, out_final_name(<<>>, videos[1])>>] IN
        /\ f.artist = Precedence(args.artist, yt.metadata, "Artist", Author)
        /\ f.title = Precedence(args.title, yt.metadata, "Song", videos[1])
        /\ f.album = Precedence(args.album, yt.metadata, "Album", videos[1])

\* C7: in format both, every item completed without error or interrupt has
\* its video output and its audio output in the output directory.
C7_BothOutputsExist ==
    (args.format = "both" /\ ~interrupted) =>
        \A k \in 1..Len(results) :
            results[k] = "completed" =>
                /\ <<OutDir, VideoOutput(k)>> \in DOMAIN files
                /\ <<OutDir, AudioOutput(k)>> \in DOMAIN files

InitialDirs == {fs.dirs : fs \in UrlInitialFS \cup PlaylistInitialFS}

\* C8: a compression level outside 0..9 ends the process with a non-zero
\* exit code before the clipboard is read, a source resolved, a directory
\* created or entered, the user prompted or a download started; a level
\* inside 0..9 never ends it that way.
C8_InvalidLevelRejected ==
    /\ (pc # "get_args" /\ (args.compress_level < 0 \/ args.compress_level > 9))
          => /\ pc = "exited"
             /\ exitCode # 0 /\ exitCode # -1
             /\ exitMsg = "invalid compress level"
             /\ ~clipboardRead
             /\ (args.clipboard => args.url = NoUrls)
             /\ videos = <<>>
             /\ netCalls = 0
             /\ downloads = 0
             /\ prompted = 0
             /\ cwd = Root
             /\ dirs \in InitialDirs
             /\ \A p \in DOMAIN files : files[p].rev = 0
    /\ (args.compress_level >= 0 /\ args.compress_level <= 9)
          => exitMsg # "invalid compress level"

\* a clipboard run with level 10 has been rejected
C8_Witness ==
    /\ args.compress_level = 10
    /\ args.clipboard
    /\ clipboard # None
    /\ pc = "exited"
    /\ exitMsg = "invalid compress level"

\* positions of the video streams of the drawn list, in the list's order
VideoStreams == filter_type(sel.streams, "video")

UnderCap == {k \in DOMAIN VideoStreams : VideoStreams[k].res <= sel.cap}

\* C9: with a stream at or below the cap, video selection returns a stream at
\* or below the cap: the last one, in the supplied order, among those at or
\* below the greatest resolution that fits the cap; with none, it fails and
\* nothing is downloaded.
C9_VideoSelection ==
    sel.fn = "download_video_part" =>
        IF UnderCap = {}
        THEN ~sel.ok /\ downloads = 0
        ELSE LET best == CHOOSE r \in {VideoStreams[k].res : k \in UnderCap} :
                             \A k \in UnderCap : VideoStreams[k].res <= r
                 at == CHOOSE k \in DOMAIN VideoStreams :
                           /\ VideoStreams[k].res <= best
                           /\ \A j \in DOMAIN VideoStreams :
                                  VideoStreams[j].res <= best => j <= k
             IN  /\ sel.ok
                 /\ sel.stream.res <= sel.cap
                 /\ sel.stream = VideoStreams[at]
                 /\ downloads = 1

\* a list with a stream above the cap and two below it, the better one first
C9_Witness ==
    /\ sel.fn = "download_video_part"
    /\ sel.ok
    /\ \E k \in DOMAIN VideoStreams : VideoStreams[k].res > sel.cap
    /\ \E j, k \in UnderCap : j < k /\ VideoStreams[j].res > VideoStreams[k].res

AudioPositions == {k \in DOMAIN sel.streams : sel.streams[k].type = "audio"}

\* C10: both audio selections return a candidate of the greatest bitrate
\* among the audio-only streams, ties going to one fixed candidate (the last
\* of the tied ones in the provider's order), and fail on an empty candidate set.
C10_AudioSelection ==
    sel.fn \in {"download_audio_part", "download_audio"} =>
        IF AudioPositions = {}
        THEN ~sel.ok /\ downloads = 0
        ELSE LET top == {k \in AudioPositions :
                            \A j \in AudioPositions : sel.streams[j].abr <= sel.streams[k].abr}
                 at == CHOOSE k \in top : \A j \in top : j <= k
             IN  /\ sel.ok
                 /\ \A j \in AudioPositions : sel.streams[j].abr <= sel.stream.abr
                 /\ sel.stream = sel.streams[at]

\* the audio part of the advanced path has chosen among two streams that tie
\* on the greatest bitrate and one below it
C10_Witness ==
    /\ sel.fn = "download_audio_part"
    /\ sel.ok
    /\ \E j, k \in AudioPositions :
          j # k /\ sel.streams[j].abr = sel.stream.abr /\ sel.streams[k].abr = sel.stream.abr
    /\ \E k \in AudioPositions : sel.streams[k].abr < sel.stream.abr

\* C11: for every string s, remove_forbidden(s) has the length of s, holds no
\* code point above 127 and none of / \ ? % * : | " < >, and applying
\* remove_forbidden to it again changes nothing.
C11_SanitizeClean ==
    /\ san.calls >= 1 =>
          /\ Len(san.once) = Len(san.s)
          /\ \A k \in DOMAIN san.once :
                 san.once[k] <= 127 /\ san.once[k] \notin {47, 92, 63, 37, 42, 58, 124, 34, 60, 62}
    /\ san.calls = 2 => san.twice = san.once

\* C12: whatever the thumbnail fetch does (status 200, any other status, a
\* transport error), the tagging step is not failed by it: once the step is
\* over, the resolved artist, title and album have been committed to the
\* audio file by one save and the process has not ended with a traceback.
C12_FetchNeverFailsTagging ==
    (pc \notin {"tagging", "thumbnail"} /\ ~interrupted) =>
        LET f == files[<<Root, <<97, 46, 109, 112, 51>> >>] IN
        /\ saves = 1
        /\ f.tagged
        /\ exitMsg # "traceback"

\* final output names of the items of the batch
FinalNames == UNION {{AudioOutput(k), VideoOutput(k)} : k \in 1..Len(videos)}

\* no step of the pipeline replaces, rewrites or removes a file that the run
\* found in the output directory under a final output name
C13_ExistingKept ==
    pc \notin {"get_args", "get_urls"} =>
        \A name \in FinalNames :
            (<<OutDir, name>> \in DOMAIN files /\ files[<<OutDir, name>>].rev = 0)
                => /\ <<OutDir, name>> \in DOMAIN files'
                   /\ files'[<<OutDir, name>>] = files[<<OutDir, name>>]

\* the merged video is not assembled while its name is taken in the output
\* directory
C13_CollisionSkipsAdvanced ==
    pc \in {"audio_part", "video_part", "merge"} => <<OutDir, VideoOutput(i + 1)>> \notin DOMAIN files

\* C13: a file that exists in the output directory under a final output name
\* is never overwritten: for the audio output, the progressive video output
\* and the merged video output a collision makes the pipeline skip the asset,
\* without replacing the file and without an error for the item.
C13_CollisionMeansSkip ==
    []C13_CollisionSkipsAdvanced /\ [][C13_ExistingKept]_vars

\* the audio file of the item being processed
CurrentAudio == <<OutDir, AudioOutput(i + 1)>>

\* the file holds what the in-memory tag held, with or without a cover
Committed(f, t) ==
    /\ f.tagged
    /\ f.artist = t.artist
    /\ f.title = t.title
    /\ f.album = t.album

\* what one step may do to tags: only the last step of the tagging block
\* saves, it saves once, and what it saves is the whole in-memory tag
C14_TagStep ==
    /\ saves' \in {saves, saves + 1}
    /\ pc # "thumbnail" =>
          /\ saves' = saves
          /\ \A p \in DOMAIN files \cap DOMAIN files' :
                 files'[p].tagged => files'[p] = files[p]
          /\ \A p \in DOMAIN files' \ DOMAIN files : ~files'[p].tagged
    /\ pc = "tagging" => files' = files /\ pc' = "thumbnail"
    /\ pc = "thumbnail" =>
          \/ saves' = saves /\ files' = files /\ pc' = "exited"
          \/ /\ saves' = saves + 1
             /\ DOMAIN files' = DOMAIN files
             /\ \A p \in DOMAIN files : p # CurrentAudio => files'[p] = files[p]
             /\ Committed(files'[CurrentAudio], tag)
             /\ files'[CurrentAudio].rev = files[CurrentAudio].rev + 1

\* C14: the tag is built in memory and committed by one save at the end of
\* the tagging step: a run of the step, completed or cut short by an error,
\* leaves the audio file either with the complete resolved tag or unchanged,
\* and saves it at most once.
C14_TagAllOrNothing == [][C14_TagStep]_vars

\* a run whose thumbnail fetch failed after the transcode: the audio file is
\* there as the transcoder wrote it, without a tag
C14_Witness ==
    /\ pc = "exited"
    /\ exitMsg = "traceback"
    /\ args.format = "audio"
    /\ args.add_metadata
    /\ results = <<>>
    /\ saves = 0
    /\ FilesIn(Root) = {<<97, 46, 109, 112, 51>>}
    /\ files[<<Root, <<97, 46, 109, 112, 51>> >>].rev = 1
    /\ ~files[<<Root, <<97, 46, 109, 112, 51>> >>].tagged

\* "playlist-p_l", the directory of the playlist titled "p l"
PlaylistDir == << <<112, 108, 97, 121, 108, 105, 115, 116, 45, 112, 95, 108>> >>

\* the step of get_urls that has resolved the playlist title and was not
\* interrupted: what it does to the directory, and that it goes on
C15_DirectoryStep ==
    (pc = "get_urls" /\ args.playlist # None /\ cwd' = PlaylistDir /\ ~interrupted') =>
        /\ PlaylistDir \in dirs'
        /\ pc' = "list_videos"
        /\ IF PlaylistDir \notin dirs \/ listdir(PlaylistDir) = {}
           THEN prompted' = prompted /\ files' = files
           ELSE /\ prompted' = prompted + 1
                /\ IF answer' \in {"y", "Y"}
                   THEN \A p \in DOMAIN files' : p[1] # PlaylistDir
                   ELSE files' = files

\* C15: a playlist directory that does not exist is created and entered; an
\* empty one is entered without a prompt; for a non-empty one the user is
\* asked once, 'y' or 'Y' removes every file in it and any other answer
\* leaves every file; in each case the run goes on to the items of the
\* playlist, inside that directory.
C15_PlaylistDirectory ==
    [][C15_DirectoryStep]_vars
        /\ [](pc \in {"list_videos", "loop"} /\ args.playlist # None => cwd = PlaylistDir)

\* C16: when more than one item is processed one progress update has been
\* emitted for every item the loop is done with, and verbose narration is
\* printed only when exactly one item is processed and silent mode is off.
C16_ProgressByItemCount ==
    /\ Len(videos) > 1 => progressUpdates >= Len(results)
    /\ narrated => (Len(videos) = 1 /\ ~args.silent)

\* positions of the audio streams of the current item that have a bitrate
AudioCandidates == {k \in DOMAIN yt.streams : yt.streams[k].type = "audio" /\ yt.streams[k].abr # 0}

\* the candidate download_audio takes (C10): greatest bitrate, last among ties
SourcePosition ==
    CHOOSE k \in AudioCandidates :
        \A j \in AudioCandidates :
            \/ yt.streams[j].abr < yt.streams[k].abr
            \/ (yt.streams[j].abr = yt.streams[k].abr /\ j <= k)

\* <sanitized-title>.<source ext>, the intermediate of the current item
Intermediate ==
    <<OutDir, IF yt.streams[SourcePosition].subtype = "mp4" THEN VideoOutput(i + 1)
              ELSE WebmIntermediate(i + 1)>>

\* what each step of download_audio may do to the files of the output
\* directory: the download adds the intermediate at most, a transcode that
\* succeeds adds the .mp3 and takes the intermediate away, one that fails
\* leaves both as they are, and no other step of the path adds or removes a file
C17_AudioStep ==
    /\ pc = "download_audio" => files' = files
    /\ pc = "audio_fetch" =>
          /\ DOMAIN files' \ DOMAIN files \subseteq {Intermediate}
          /\ DOMAIN files \subseteq DOMAIN files'
    /\ pc = "transcode" =>
          IF pc' = "exited"
          THEN files' = files
          ELSE /\ Intermediate \in DOMAIN files
               /\ Intermediate \notin DOMAIN files'
               /\ CurrentAudio \in DOMAIN files'
               /\ files'[CurrentAudio].rev > 0
               /\ DOMAIN files' = (DOMAIN files \ {Intermediate}) \cup {CurrentAudio}
    /\ pc \in {"tagging", "thumbnail"} => DOMAIN files' = DOMAIN files
    /\ (pc \in {"download_audio", "audio_fetch", "tagging", "thumbnail"} /\ AudioCandidates # {})
          => (Intermediate \in DOMAIN files => Intermediate \in DOMAIN files')

\* C17: download_audio leaves no intermediate behind: the step in which the
\* transcode succeeds takes the downloaded <sanitized-title>.<source ext>
\* away and adds the .mp3, no other step of download_audio removes the
\* intermediate, and between the download and the end of download_audio
\* nothing else is added to the output directory.
C17_NoIntermediateLeft == [][C17_AudioStep]_vars

\* a single item in audio format is done: one download was made and the
\* directory holds a.mp3 and nothing else
C17_Witness ==
    /\ args.format = "audio"
    /\ Len(videos) = 1
    /\ results = <<"completed">>
    /\ downloads = 1
    /\ FilesIn(Root) = {<<97, 46, 109, 112, 51>>}
    /\ files[<<Root, <<97, 46, 109, 112, 51>> >>].rev > 0

\* the steps of the loop outside the advanced video path
OutsideAdvancedPath ==
    pc \in {"loop", "download_video", "progressive_fetch", "download_audio", "audio_fetch",
            "transcode", "tagging", "thumbnail"}

\* the working directory is the output directory, except inside the advanced
\* path, where it is a directory directly below it
C18_InOutputDirectory ==
    /\ OutsideAdvancedPath => cwd = OutDir
    /\ InAdvancedPath => (Len(cwd) = Len(OutDir) + 1 /\ Parent(cwd) = OutDir)

\* leaving the advanced path in any way restores the output directory; a
\* merge step that writes and returns has put the video there; and no step
\* outside the advanced path writes below the output directory
C18_RestoreStep ==
    /\ ((pc = "download_video" \/ InAdvancedPath) /\ args.development
            /\ pc' \notin {"audio_part", "video_part", "merge"})
          => cwd' = OutDir
    /\ (pc = "merge" /\ pc' # "exited" /\ files' # files)
          => /\ <<OutDir, VideoOutput(i + 1)>> \in DOMAIN files'
             /\ files'[<<OutDir, VideoOutput(i + 1)>>].rev > 0
    /\ ~InAdvancedPath =>
          \A p \in DOMAIN files' :
              Len(p[1]) > Len(OutDir) => (p \in DOMAIN files /\ files'[p] = files[p])

\* C18: the advanced video path restores the working directory: however
\* download_video ends (success, failed download or transcode, interrupt) the
\* current directory is the batch output directory again, the merged video is
\* moved there, and every later step and item writes there and never inside
\* a temporary directory.
C18_WorkingDirectoryRestored == []C18_InOutputDirectory /\ [][C18_RestoreStep]_vars

\* format both with -d: the advanced path was interrupted, and the audio step
\* that followed has put the .mp3 of the item into the output directory
C18_Witness ==
    /\ args.development
    /\ args.format = "both"
    /\ interrupted
    /\ results = <<"completed">>
    /\ cwd = OutDir
    /\ <<OutDir, AudioOutput(1)>> \in DOMAIN files
    /\ files[<<OutDir, AudioOutput(1)>>].rev > 0
    /\ \E d \in dirs : Len(d) = Len(OutDir) + 1 /\ d[Len(d)] \in TempNames

====
